---- MODULE Spec2Model ----
(***************************************************************************)
(* placetime-fetcher (src/fetcher.go): the scheduling loop of main, the    *)
(* two orchestrators pollFeeds and pollImages with their pools of three     *)
(* goroutines (feedWorker, imageWorker), and updateProfileItemData, the     *)
(* unfollow / upsert / re-follow sequence against the store.                *)
(*                                                                          *)
(* The store (github.com/placetime/datastore), the feed parser, the image   *)
(* picker and the file system are outside the repository: the store is a    *)
(* map of items keyed by Id plus an ordered follower list per profile, and  *)
(* every network or disk call is a nondeterministic choice of its outcome.  *)
(***************************************************************************)
EXTENDS Integers, Sequences, FiniteSets, TLC

\* --------------------------------------------------------------- bounds
\* number of feed driven profiles in the store
NumProfiles == 2
\* number of ticks of the 30 minute ticker that are explored
MaxTicks == 1

\* --------------------------------------------------- program constants
\* for w := 0; w < 3; w++ { go feedWorker(...) } / go imageWorker(...)
NumWorkers == 3
\* s.GrabItemsNeedingImages(30)
GrabLimit == 30

Workers == 0 .. (NumWorkers - 1)

\* ------------------------------------------------------------ the world
PidNames == <<"p1", "p2", "p3", "p4">>
Pids == {PidNames[i] : i \in 1 .. NumProfiles}

NoErr == "nil"
TransportError == "transport error"
ParseError == "parse error"
StoreError == "store error"
ImageError == "pick error"
OpenError == "open error"
EncodeError == "encode error"

\* Go's nil slice and a non-nil slice holding the sequence s
NilSlice == [isNil |-> TRUE, elems |-> <<>>]
Slice(s) == [isNil |-> FALSE, elems |-> s]

\* entries of a parsed feed (feedparser.Item): Id, Title, Link, Image, When
FeedItem(id, image) ==
    [Id |-> id, Title |-> "title " \o id, Link |-> "http://example.org/" \o id,
     Image |-> image, When |-> 1000]

\* the documents the feed urls serve: profile i serves FeedTable[i]
FeedTable ==
    << <<FeedItem("a1", ""), FeedItem("a2", "")>>,
       <<FeedItem("a2", "seed.jpg"), FeedItem("a3", "")>>,
       << >>,
       <<FeedItem("a4", "")>> >>

\* follower edges before the first poll: profile i is followed by FollowerTable[i]
FollowerTable ==
    << <<"u1", "u2">>, << >>, <<"u2">>, <<"u1">> >>

PidIndex(pid) == CHOOSE i \in 1 .. Len(PidNames) : PidNames[i] = pid

\* crypto/md5 of the source entry identifier printed with %x
Md5Table ==
    [a1 |-> "8a8bb7cd343aa2ad99b7d762030857a2",
     a2 |-> "693a9fdd4c2fd0700968fba0d07ff3c0",
     a3 |-> "9d607a663f3e9b0a90c3c8d4426640dc",
     a4 |-> "894f782a148b33af1e39a0efed952d69"]

Md5Hex(s) == Md5Table[s]

ImgDir == "/var/opt/timescroll/img"

\* every Id the feeds can produce, in the order the store lists them
AllIds == <<Md5Hex("a1"), Md5Hex("a2"), Md5Hex("a3"), Md5Hex("a4")>>

VARIABLES
    pc,             \* main: the line main is at ("L46" .. "L56", "exit")
    runOnce,        \* main: the -runonce flag
    ticks,          \* main: ticks received from time.Tick so far
    feedRuns,       \* number of pollFeeds calls so far
    imageRuns,      \* number of pollImages calls so far
    storeItems,     \* store: Id -> Item, the items of the store
    storeFollowers, \* store: Pid -> follower pids, most recently followed first
    files,          \* disk: the paths created in the image directory
    fpc,            \* pollFeeds: where the coordinator is ("idle" when not running)
    profiles,       \* pollFeeds: profiles
    feedJobs,       \* pollFeeds: the jobs channel
    feedResults,    \* pollFeeds: the results channel
    fi,             \* pollFeeds: the loop index (of the enqueue loop, then of the drain loop)
    data,           \* pollFeeds: data, the result being processed
    snap,           \* updateProfileItemData: followers
    k,              \* updateProfileItemData: index of the running range loop
    ret,            \* updateProfileItemData: the error it returns
    fw,             \* the feedWorker goroutines: what each is doing
    ipc,            \* pollImages: where the coordinator is
    items,          \* pollImages: items
    imgJobs,        \* pollImages: the jobs channel
    imgResults,     \* pollImages: the results channel
    ii,             \* pollImages: the loop index
    idata,          \* pollImages: data
    iw,             \* the imageWorker goroutines: what each is doing, its item, and
                    \* whether its img is non-nil
    calls           \* the store calls and received results of the current orchestrator run

mainVars == <<pc, runOnce, ticks, feedRuns, imageRuns>>
storeVars == <<storeItems, storeFollowers>>
feedVars == <<fpc, profiles, feedJobs, feedResults, fi, data, snap, k, ret, fw>>
imgVars == <<ipc, items, imgJobs, imgResults, ii, idata, iw>>
vars == <<mainVars, storeVars, files, feedVars, imgVars, calls>>

\* ------------------------------------------------------------ the store
NoProfile == [Pid |-> "", FeedUrl |-> "", FollowerCount |-> 0]
NoItem == [Id |-> "", Pid |-> "", Event |-> 0, Text |-> "", Link |-> "", Image |-> ""]

Min(a, b) == IF a < b THEN a ELSE b

Remove(seq, x) == SelectSeq(seq, LAMBDA y : y # x)

\* s.FeedDrivenProfiles(): the feed driven profiles, each with its follower count
FeedDrivenProfiles(fol) ==
    [i \in 1 .. NumProfiles |->
        [Pid |-> PidNames[i], FeedUrl |-> "http://feeds.example.org/" \o PidNames[i],
         FollowerCount |-> Len(fol[PidNames[i]])]]

\* s.Followers(pid, count, start): count followers of pid from position start
Followers(fol, pid, count, start) ==
    SubSeq(fol[pid], start + 1, Min(start + count, Len(fol[pid])))

\* s.Unfollow(f, p): removes the edge (f, p)
Unfollow(fol, f, p) == [fol EXCEPT ![p] = Remove(@, f)]

\* s.Follow(f, p): adds the edge (f, p) at the most recent position
Follow(fol, f, p) == [fol EXCEPT ![p] = <<f>> \o Remove(@, f)]

\* s.AddItem(pid, time, text, link, image, id): upsert keyed by id
AddItem(st, item) ==
    [id \in DOMAIN st \cup {item.Id} |-> IF id = item.Id THEN item ELSE st[id]]

\* s.UpdateItem(item): writes the item back under its id
UpdateItem(st, item) ==
    [id \in DOMAIN st \cup {item.Id} |-> IF id = item.Id THEN item ELSE st[id]]

\* s.GrabItemsNeedingImages(limit): at most limit items whose Image is empty
GrabItemsNeedingImages(st, limit) ==
    LET need == SelectSeq(AllIds, LAMBDA id : id \in DOMAIN st /\ st[id].Image = "")
    IN  [i \in 1 .. Min(limit, Len(need)) |-> st[need[i]]]

\* --------------------------------------------------------- pure helpers
NilFeed == [isNil |-> TRUE, Items |-> <<>>]
Feed(s) == [isNil |-> FALSE, Items |-> s]

\* the document behind a profile's feed url
FeedAt(pid) == Feed(FeedTable[PidIndex(pid)])

\* faulty variant: the Id also depends on the poll that fetched the entry
ContentId_PerPoll(srcId) == Md5Hex(srcId) \o "-" \o ToString(feedRuns)

\* lines 183-185: the Id of an entry is the hex md5 of the source identifier
ContentId(srcId) == Md5Hex(srcId)

\* line 186: the Item built from one parsed feed item
ItemOf(pid, item) ==
    [Id |-> ContentId(item.Id), Pid |-> pid, Event |-> item.When, Text |-> item.Title,
     Link |-> item.Link, Image |-> item.Image]

\* faulty variant: a nil feed gives a nil slice
itemsFromFeed_NilOnNilFeed(pid, feed) ==
    IF feed.isNil
    THEN NilSlice
    ELSE Slice([i \in 1 .. Len(feed.Items) |-> ItemOf(pid, feed.Items[i])])

\* itemsFromFeed: a non-nil slice, empty when feed is nil
itemsFromFeed(pid, feed) ==
    IF feed.isNil
    THEN Slice(<<>>)
    ELSE Slice([i \in 1 .. Len(feed.Items) |-> ItemOf(pid, feed.Items[i])])

\* one entry of calls: a store call op(a, b) with the error and list it
\* returned, or a result the coordinator received ("recv", "recvImage")
\* with its error, its entry ids, whether its entry list was nil and the
\* line the coordinator logged for it; for s.Followers, rest holds the
\* followers the store had beyond the ones it returned
Call(op, a, b) ==
    [op |-> op, a |-> a, b |-> b, err |-> NoErr, list |-> << >>, isNil |-> FALSE,
     log |-> "", rest |-> << >>]

IdsOf(elems) == [i \in 1 .. Len(elems) |-> elems[i].Id]

NoData == [Profile |-> NoProfile, Items |-> NilSlice, Error |-> NoErr]
NoImageData == [Item |-> NoItem, Error |-> NoErr]
Idle == [st |-> "idle", p |-> NoProfile]
ImgIdle == [st |-> "idle", item |-> NoItem, img |-> FALSE]

\* ----------------------------------------------------------------- Init
\* main has parsed its flags (no -debugfeed) and checkEnvironment has passed
Init ==
    /\ pc = "L46"
    /\ runOnce \in BOOLEAN
    /\ ticks = 0
    /\ feedRuns = 0
    /\ imageRuns = 0
    /\ storeItems = << >>
    /\ storeFollowers = [p \in Pids |-> FollowerTable[PidIndex(p)]]
    /\ files = {}
    /\ fpc = "idle"
    /\ profiles = << >>
    /\ feedJobs = << >>
    /\ feedResults = << >>
    /\ fi = 0
    /\ data = NoData
    /\ snap = << >>
    /\ k = 0
    /\ ret = NoErr
    /\ fw = [w \in Workers |-> Idle]
    /\ ipc = "idle"
    /\ items = << >>
    /\ imgJobs = << >>
    /\ imgResults = << >>
    /\ ii = 0
    /\ idata = NoImageData
    /\ iw = [w \in Workers |-> ImgIdle]
    /\ calls = << >>

\* ----------------------------------------------------------------- main
\* the line main continues at when the call at line l returns
AfterCall(l) ==
    CASE l = "L46" -> "L47"
      [] l = "L47" -> "L49"
      [] l = "L55" -> "L56"
      [] l = "L56" -> "L54"

\* faulty variant: the orchestrator is started with go, main moves on at once
DuringCall_Go(l) == AfterCall(l)

\* lines 46-47 and 55-56: a call statement keeps main on its line until the
\* callee returns
DuringCall(l) == l

\* faulty variant: the runOnce flag is not looked at
AfterRunOnce_Loop(flag) == "L54"

\* lines 49-53: if runOnce { return }; otherwise the ticker loop is entered
AfterRunOnce(flag) == IF flag THEN "exit" ELSE "L54"

\* lines 49-51
main_RunOnce ==
    /\ pc = "L49"
    /\ pc' = AfterRunOnce(runOnce)
    /\ UNCHANGED <<runOnce, ticks, feedRuns, imageRuns, storeVars, files, feedVars,
                   imgVars, calls>>

\* line 54: for _ = range ticker, one tick received
main_Tick ==
    /\ pc = "L54"
    /\ ticks < MaxTicks
    /\ ticks' = ticks + 1
    /\ pc' = "L55"
    /\ UNCHANGED <<runOnce, feedRuns, imageRuns, storeVars, files, feedVars, imgVars,
                   calls>>

\* ------------------------------------------------------------ pollFeeds
\* faulty variant: the channels are made with room for one element
ChanCap_One(n) == 1

\* lines 88-89 and 122-123: make(chan ..., len(batch)), the capacity of
\* the jobs and of the results channel for a batch of n jobs
ChanCap(n) == n

\* lines 46/55 and 82-93: main calls pollFeeds, which loads the profiles (an
\* error of the store is dropped and leaves profiles empty), makes the two
\* channels and starts the three workers
pollFeeds_Start ==
    /\ pc \in {"L46", "L55"}
    /\ fpc = "idle"
    /\ \E ok \in BOOLEAN :
          profiles' = IF ok THEN FeedDrivenProfiles(storeFollowers) ELSE << >>
    /\ feedJobs' = << >>
    /\ feedResults' = << >>
    /\ fw' = [w \in Workers |-> Idle]
    /\ fi' = 0
    /\ data' = NoData
    /\ snap' = << >>
    /\ k' = 0
    /\ ret' = NoErr
    /\ fpc' = "enqueue"
    /\ feedRuns' = feedRuns + 1
    /\ calls' = << >>
    /\ pc' = DuringCall(pc)
    /\ UNCHANGED <<runOnce, ticks, imageRuns, storeVars, files, imgVars>>

\* lines 95-97: jobs <- p, which blocks while the channel is full
pollFeeds_Enqueue ==
    /\ fpc = "enqueue"
    /\ fi < Len(profiles)
    /\ Len(feedJobs) < ChanCap(Len(profiles))
    /\ feedJobs' = Append(feedJobs, profiles[fi + 1])
    /\ fi' = fi + 1
    /\ UNCHANGED <<mainVars, storeVars, files, fpc, profiles, feedResults, data, snap, k,
                   ret, fw, imgVars, calls>>

\* line 98: close(jobs)
pollFeeds_Close ==
    /\ fpc = "enqueue"
    /\ fi = Len(profiles)
    /\ fpc' = "drain"
    /\ fi' = 0
    /\ UNCHANGED <<mainVars, storeVars, files, profiles, feedJobs, feedResults, data, snap,
                   k, ret, fw, imgVars, calls>>

\* faulty variant: the worker upserts the first entry of its result itself
feedWorkerStore_AddItem(st, d) ==
    IF d.Items.elems = << >> THEN st ELSE AddItem(st, d.Items.elems[1])

\* lines 159-176: the body of feedWorker calls http.Get, feedparser.NewFeed
\* and itemsFromFeed and sends on results; it makes no call on the store,
\* which it leaves as it is
feedWorkerStore(st, d) == st

\* line 160: for p := range jobs, one job received
feedWorker_Take(w) ==
    /\ fpc # "idle"
    /\ fw[w].st = "idle"
    /\ feedJobs # << >>
    /\ fw' = [fw EXCEPT ![w] = [st |-> "fetch", p |-> Head(feedJobs)]]
    /\ feedJobs' = Tail(feedJobs)
    /\ UNCHANGED <<mainVars, storeVars, files, fpc, profiles, feedResults, fi, data, snap,
                   k, ret, imgVars, calls>>

\* faulty variant: after a transport error the worker sends an empty, non-nil list
feedWorkerResult_EmptyOnError(p, httpErr, feed, parseErr) ==
    IF httpErr # NoErr
    THEN [Profile |-> p, Items |-> Slice(<< >>), Error |-> httpErr]
    ELSE [Profile |-> p, Items |-> itemsFromFeed(p.Pid, feed), Error |-> parseErr]

\* lines 163-174: what the worker sends for profile p, given the error of
\* http.Get and the feed and error feedparser.NewFeed returns
feedWorkerResult(p, httpErr, feed, parseErr) ==
    IF httpErr # NoErr
    THEN [Profile |-> p, Items |-> NilSlice, Error |-> httpErr]
    ELSE [Profile |-> p, Items |-> itemsFromFeed(p.Pid, feed), Error |-> parseErr]

\* the outcomes of http.Get followed by feedparser.NewFeed: <<http error,
\* feed, parse error>>; after a transport error the parser is not called
FetchOutcomes(p) ==
    { <<TransportError, NilFeed, NoErr>>,
      <<NoErr, NilFeed, ParseError>>,
      <<NoErr, NilFeed, NoErr>>,
      <<NoErr, FeedAt(p.Pid), ParseError>>,
      <<NoErr, FeedAt(p.Pid), NoErr>> }

\* lines 163-174: fetch, parse and results <- ..., which blocks while the channel is full
feedWorker_Fetch(w) ==
    /\ fw[w].st = "fetch"
    /\ Len(feedResults) < ChanCap(Len(profiles))
    /\ \E o \in FetchOutcomes(fw[w].p) :
          /\ feedResults' = Append(feedResults, feedWorkerResult(fw[w].p, o[1], o[2], o[3]))
          /\ storeItems' = feedWorkerStore(storeItems,
                                           feedWorkerResult(fw[w].p, o[1], o[2], o[3]))
    /\ fw' = [fw EXCEPT ![w] = Idle]
    /\ UNCHANGED <<mainVars, storeFollowers, files, fpc, profiles, feedJobs, fi, data, snap, k,
                   ret, imgVars, calls>>

\* lines 102-106: the line the coordinator logs for a result
FeedLog(d) == IF d.Error # NoErr THEN "Error processing feed" ELSE "Found items in feed"

\* faulty variant: the update runs only when some entry is new to the store
NeedsUpdate_OnlyNovel(d) ==
    /\ ~d.Items.isNil
    /\ \E i \in DOMAIN d.Items.elems : d.Items.elems[i].Id \notin DOMAIN storeItems

\* faulty variant: once a result carried an error, later results are not applied
NeedsUpdate_StopOnError(d) ==
    /\ ~d.Items.isNil
    /\ ~\E i \in DOMAIN calls : calls[i].op = "recv" /\ calls[i].err # NoErr

\* line 228: if data.Items != nil
NeedsUpdate(d) == ~d.Items.isNil

\* faulty variant: the update returns after the upserts, without the Follow loop
UpdateNext_NoFollow(stage, n, d, followers) ==
    LET nf == Len(followers)
        ni == Len(d.Items.elems)
    IN  CASE stage = "unfollow" /\ n < nf -> "unfollow"
          [] stage = "unfollow" /\ n >= nf /\ ni > 0 -> "additem"
          [] stage = "unfollow" /\ n >= nf /\ ni = 0 -> "gosched"
          [] stage = "additem" /\ n < ni -> "additem"
          [] stage = "additem" /\ n >= ni -> "gosched"

\* faulty variant: the followers are re-followed before the entries are upserted
UpdateNext_FollowFirst(stage, n, d, followers) ==
    LET nf == Len(followers)
        ni == Len(d.Items.elems)
    IN  CASE stage = "unfollow" /\ n < nf -> "unfollow"
          [] stage = "unfollow" /\ n >= nf /\ nf > 0 -> "follow"
          [] stage = "unfollow" /\ n >= nf /\ nf = 0 /\ ni > 0 -> "additem"
          [] stage = "unfollow" /\ n >= nf /\ nf = 0 /\ ni = 0 -> "gosched"
          [] stage = "follow" /\ n < nf -> "follow"
          [] stage = "follow" /\ n >= nf /\ ni > 0 -> "additem"
          [] stage = "follow" /\ n >= nf /\ ni = 0 -> "gosched"
          [] stage = "additem" /\ n < ni -> "additem"
          [] stage = "additem" /\ n >= ni -> "gosched"

\* updateProfileItemData: where the function continues after the loop at
\* stage has reached index n ("unfollow" 239-241, "additem" 244-246,
\* "follow" 248-250; "gosched" is the return to line 109)
UpdateNext(stage, n, d, followers) ==
    LET nf == Len(followers)
        ni == Len(d.Items.elems)
    IN  CASE stage = "unfollow" /\ n < nf -> "unfollow"
          [] stage = "unfollow" /\ n >= nf /\ ni > 0 -> "additem"
          [] stage = "unfollow" /\ n >= nf /\ ni = 0 /\ nf > 0 -> "follow"
          [] stage = "unfollow" /\ n >= nf /\ ni = 0 /\ nf = 0 -> "gosched"
          [] stage = "additem" /\ n < ni -> "additem"
          [] stage = "additem" /\ n >= ni /\ nf > 0 -> "follow"
          [] stage = "additem" /\ n >= ni /\ nf = 0 -> "gosched"
          [] stage = "follow" /\ n < nf -> "follow"
          [] stage = "follow" /\ n >= nf -> "gosched"

\* the entry of calls for a received feed result
RecvCall(d) ==
    [Call("recv", d.Profile.Pid, "") EXCEPT
        !.err = d.Error, !.list = IdsOf(d.Items.elems), !.isNil = d.Items.isNil,
        !.log = FeedLog(d)]

\* faulty variant: the drain loop waits for one result more than there are jobs
FeedDrainMore_OneMore(i, profs) == i <= Len(profs)

\* line 100: i < len(profiles), the coordinator drains one more result
FeedDrainMore(i, profs) == i < Len(profs)

\* faulty variant: the coordinator waits for the result of the i-th job submitted
ResultReady_InOrder(results, i, profs) ==
    /\ results # << >>
    /\ \E n \in DOMAIN results : results[n].Profile.Pid = profs[i + 1].Pid

\* line 101: data := <-results proceeds as soon as any result is in the
\* channel; the loop index i and the batch profs play no part in it
ResultReady(results, i, profs) == results # << >>

\* lines 101-108: data := <-results, the log line, and the call of
\* updateProfileItemData up to its test of data.Items
pollFeeds_Drain ==
    /\ fpc = "drain"
    /\ FeedDrainMore(fi, profiles)
    /\ ResultReady(feedResults, fi, profiles)
    /\ data' = Head(feedResults)
    /\ feedResults' = Tail(feedResults)
    /\ calls' = Append(calls, RecvCall(Head(feedResults)))
    /\ fpc' = IF NeedsUpdate(Head(feedResults)) THEN "followers" ELSE "gosched"
    /\ snap' = << >>
    /\ k' = 0
    /\ ret' = NoErr
    /\ UNCHANGED <<mainVars, storeVars, files, profiles, feedJobs, fi, fw, imgVars>>

\* faulty variant: the error of s.Followers is ignored
AfterFollowers_IgnoreErr(err, d, followers) == UpdateNext("unfollow", 0, d, followers)

\* lines 235-239: if err != nil { return err }, otherwise on to the loops
AfterFollowers(err, d, followers) ==
    IF err # NoErr THEN "gosched" ELSE UpdateNext("unfollow", 0, d, followers)

\* lines 234-237: followers, err := s.Followers(...); if err != nil { return err }
update_Followers ==
    /\ fpc = "followers"
    /\ \E err \in {NoErr, StoreError} :
          /\ snap' = IF err # NoErr
                     THEN << >>
                     ELSE Followers(storeFollowers, data.Profile.Pid,
                                    data.Profile.FollowerCount, 0)
          /\ calls' = Append(calls, [Call("Followers", data.Profile.Pid, "") EXCEPT
                                        !.err = err, !.list = snap',
                                        !.rest = IF err # NoErr
                                                 THEN << >>
                                                 ELSE SubSeq(storeFollowers[data.Profile.Pid],
                                                             Len(snap') + 1,
                                                             Len(storeFollowers[data.Profile.Pid]))])
          /\ ret' = err
          /\ fpc' = AfterFollowers(err, data, snap')
    /\ k' = 0
    /\ UNCHANGED <<mainVars, storeVars, files, profiles, feedJobs, feedResults, fi, data,
                   fw, imgVars>>

\* lines 239-241: s.Unfollow(f.Pid, p.Pid)
update_Unfollow ==
    /\ fpc = "unfollow"
    /\ storeFollowers' = Unfollow(storeFollowers, snap[k + 1], data.Profile.Pid)
    /\ calls' = Append(calls, Call("Unfollow", snap[k + 1], data.Profile.Pid))
    /\ fpc' = UpdateNext("unfollow", k + 1, data, snap)
    /\ k' = IF fpc' = "unfollow" THEN k + 1 ELSE 0
    /\ UNCHANGED <<mainVars, storeItems, files, profiles, feedJobs, feedResults, fi, data,
                   snap, ret, fw, imgVars>>

\* lines 244-246: s.AddItem(item.Pid, ..., item.Image, item.Id)
update_AddItem ==
    /\ fpc = "additem"
    /\ storeItems' = AddItem(storeItems, data.Items.elems[k + 1])
    /\ calls' = Append(calls, Call("AddItem", data.Items.elems[k + 1].Id,
                                   data.Items.elems[k + 1].Pid))
    /\ fpc' = UpdateNext("additem", k + 1, data, snap)
    /\ k' = IF fpc' = "additem" THEN k + 1 ELSE 0
    /\ UNCHANGED <<mainVars, storeFollowers, files, profiles, feedJobs, feedResults, fi,
                   data, snap, ret, fw, imgVars>>

\* lines 248-250: s.Follow(f.Pid, p.Pid)
update_Follow ==
    /\ fpc = "follow"
    /\ storeFollowers' = Follow(storeFollowers, snap[k + 1], data.Profile.Pid)
    /\ calls' = Append(calls, Call("Follow", snap[k + 1], data.Profile.Pid))
    /\ fpc' = UpdateNext("follow", k + 1, data, snap)
    /\ k' = IF fpc' = "follow" THEN k + 1 ELSE 0
    /\ UNCHANGED <<mainVars, storeItems, files, profiles, feedJobs, feedResults, fi, data,
                   snap, ret, fw, imgVars>>

\* lines 108-110: updateProfileItemData has returned; runtime.Gosched() and i++
pollFeeds_Gosched ==
    /\ fpc = "gosched"
    /\ fi' = fi + 1
    /\ fpc' = "drain"
    /\ UNCHANGED <<mainVars, storeVars, files, profiles, feedJobs, feedResults, data, snap,
                   k, ret, fw, imgVars, calls>>

\* lines 100 and 112: the drain loop is over and pollFeeds returns to main;
\* its locals go out of scope
pollFeeds_Return ==
    /\ fpc = "drain"
    /\ ~FeedDrainMore(fi, profiles)
    /\ pc \in {"L46", "L55"}
    /\ fpc' = "idle"
    /\ profiles' = << >>
    /\ fi' = 0
    /\ data' = NoData
    /\ snap' = << >>
    /\ ret' = NoErr
    /\ pc' = AfterCall(pc)
    /\ UNCHANGED <<runOnce, ticks, feedRuns, imageRuns, storeVars, files, feedJobs,
                   feedResults, k, fw, imgVars, calls>>

\* ----------------------------------------------------------- pollImages
\* lines 47/56 and 115-127: main calls pollImages, which grabs the items
\* needing images (an error of the store is dropped and leaves items empty)
\* and, when there are any, makes the channels and starts the three workers
pollImages_Start ==
    /\ pc \in {"L47", "L56"}
    /\ ipc = "idle"
    /\ \E ok \in BOOLEAN :
          items' = IF ok THEN GrabItemsNeedingImages(storeItems, GrabLimit) ELSE << >>
    /\ imgJobs' = << >>
    /\ imgResults' = << >>
    /\ iw' = [w \in Workers |-> ImgIdle]
    /\ ii' = 0
    /\ idata' = NoImageData
    /\ ipc' = IF Len(items') > 0 THEN "enqueue" ELSE "return"
    /\ imageRuns' = imageRuns + 1
    /\ calls' = << >>
    /\ pc' = DuringCall(pc)
    /\ UNCHANGED <<runOnce, ticks, feedRuns, storeVars, files, feedVars>>

\* lines 129-131: jobs <- p, which blocks while the channel is full
pollImages_Enqueue ==
    /\ ipc = "enqueue"
    /\ ii < Len(items)
    /\ Len(imgJobs) < ChanCap(Len(items))
    /\ imgJobs' = Append(imgJobs, items[ii + 1])
    /\ ii' = ii + 1
    /\ UNCHANGED <<mainVars, storeVars, files, feedVars, ipc, items, imgResults, idata, iw,
                   calls>>

\* line 132: close(jobs)
pollImages_Close ==
    /\ ipc = "enqueue"
    /\ ii = Len(items)
    /\ ipc' = "drain"
    /\ ii' = 0
    /\ UNCHANGED <<mainVars, storeVars, files, feedVars, items, imgJobs, imgResults, idata,
                   iw, calls>>

\* line 194: for item := range jobs, one job received
imageWorker_Take(w) ==
    /\ ipc \in {"enqueue", "drain", "update"}
    /\ iw[w].st = "idle"
    /\ imgJobs # << >>
    /\ iw' = [iw EXCEPT ![w] = [st |-> "pick", item |-> Head(imgJobs), img |-> FALSE]]
    /\ imgJobs' = Tail(imgJobs)
    /\ UNCHANGED <<mainVars, storeVars, files, feedVars, ipc, items, imgResults, ii, idata,
                   calls>>

\* faulty variant: every image is written under the same name
ImageFilename_Fixed(item) == "image.png"

\* lines 205-207: the path the image of an item is written to
ImageFilename(item) == item.Id \o ".png"
ImagePath(item) == ImgDir \o "/" \o ImageFilename(item)

\* faulty variant: only the error is tested, a nil image goes on to be written
PickFailed_ErrOnly(hasImg, err) == err # NoErr

\* line 198: if img == nil || err != nil, the worker sends the item as it is
PickFailed(hasImg, err) == ~hasImg \/ err # NoErr

\* the outcomes of imgpick.PickImage: <<an image was returned, error>>
PickOutcomes == { <<FALSE, NoErr>>, <<FALSE, ImageError>>, <<TRUE, NoErr>> }

\* lines 196-213: PickImage, salience.Crop and os.OpenFile with O_CREATE;
\* a failure sends the item with the error, a success leaves the file open
imageWorker_Pick(w) ==
    /\ iw[w].st = "pick"
    /\ \E o \in PickOutcomes, openErr \in {NoErr, OpenError} :
          IF PickFailed(o[1], o[2])
          THEN /\ openErr = NoErr
               /\ Len(imgResults) < ChanCap(Len(items))
               /\ imgResults' = Append(imgResults, [Item |-> iw[w].item, Error |-> o[2]])
               /\ iw' = [iw EXCEPT ![w] = ImgIdle]
               /\ UNCHANGED files
          ELSE IF openErr # NoErr
          THEN /\ Len(imgResults) < ChanCap(Len(items))
               /\ imgResults' = Append(imgResults, [Item |-> iw[w].item, Error |-> openErr])
               /\ iw' = [iw EXCEPT ![w] = ImgIdle]
               /\ UNCHANGED files
          ELSE /\ files' = files \cup {ImagePath(iw[w].item)}
               /\ iw' = [iw EXCEPT ![w] = [st |-> "encode", item |-> @.item, img |-> o[1]]]
               /\ UNCHANGED imgResults
    /\ UNCHANGED <<mainVars, storeVars, feedVars, ipc, items, imgJobs, ii, idata, calls>>

\* lines 215-222: what the worker sends after png.Encode returned err
EncodeResult(item, err) ==
    IF err # NoErr
    THEN [Item |-> item, Error |-> err]
    ELSE [Item |-> [item EXCEPT !.Image = ImageFilename(item)], Error |-> err]

\* lines 215-222: png.Encode into the open file, then results <- ...
imageWorker_Encode(w) ==
    /\ iw[w].st = "encode"
    /\ Len(imgResults) < ChanCap(Len(items))
    /\ \E err \in {NoErr, EncodeError} :
          imgResults' = Append(imgResults, EncodeResult(iw[w].item, err))
    /\ iw' = [iw EXCEPT ![w] = ImgIdle]
    /\ UNCHANGED <<mainVars, storeVars, files, feedVars, ipc, items, imgJobs, ii, idata,
                   calls>>

\* lines 136-140: the line the coordinator logs for a result
ImageLog(d) == IF d.Error # NoErr THEN "Error processing images" ELSE "Found image"

\* the entry of calls for a received image result: the item's Image in b
RecvImageCall(d) ==
    [Call("recvImage", d.Item.Id, d.Item.Image) EXCEPT !.err = d.Error, !.log = ImageLog(d)]

\* faulty variant: the drain loop stops one result early
ImageDrainMore_OffByOne(i, its) == i < Len(its) - 1

\* line 134: i < len(items), the coordinator drains one more result
ImageDrainMore(i, its) == i < Len(its)

\* lines 135-140: data := <-results and the log line
pollImages_Drain ==
    /\ ipc = "drain"
    /\ ImageDrainMore(ii, items)
    /\ imgResults # << >>
    /\ idata' = Head(imgResults)
    /\ imgResults' = Tail(imgResults)
    /\ calls' = Append(calls, RecvImageCall(Head(imgResults)))
    /\ ipc' = "update"
    /\ UNCHANGED <<mainVars, storeVars, files, feedVars, items, imgJobs, ii, iw>>

\* lines 142-144: s.UpdateItem(data.Item), runtime.Gosched() and i++
pollImages_UpdateItem ==
    /\ ipc = "update"
    /\ storeItems' = UpdateItem(storeItems, idata.Item)
    /\ calls' = Append(calls, Call("UpdateItem", idata.Item.Id, idata.Item.Image))
    /\ ii' = ii + 1
    /\ ipc' = "drain"
    /\ UNCHANGED <<mainVars, storeFollowers, files, feedVars, items, imgJobs, imgResults,
                   idata, iw>>

\* lines 134 and 145-146: the drain loop is over (or there was no item) and
\* pollImages returns to main; its locals go out of scope
pollImages_Return ==
    /\ \/ ipc = "return"
       \/ ipc = "drain" /\ ~ImageDrainMore(ii, items)
    /\ pc \in {"L47", "L56"}
    /\ ipc' = "idle"
    /\ items' = << >>
    /\ ii' = 0
    /\ idata' = NoImageData
    /\ pc' = AfterCall(pc)
    /\ UNCHANGED <<runOnce, ticks, feedRuns, imageRuns, storeVars, files, feedVars,
                   imgJobs, imgResults, iw, calls>>

Next ==
    \/ main_RunOnce
    \/ main_Tick
    \/ pollFeeds_Start
    \/ pollFeeds_Enqueue
    \/ pollFeeds_Close
    \/ \E w \in Workers : feedWorker_Take(w)
    \/ \E w \in Workers : feedWorker_Fetch(w)
    \/ pollFeeds_Drain
    \/ update_Followers
    \/ update_Unfollow
    \/ update_AddItem
    \/ update_Follow
    \/ pollFeeds_Gosched
    \/ pollFeeds_Return
    \/ pollImages_Start
    \/ pollImages_Enqueue
    \/ pollImages_Close
    \/ \E w \in Workers : imageWorker_Take(w)
    \/ \E w \in Workers : imageWorker_Pick(w)
    \/ \E w \in Workers : imageWorker_Encode(w)
    \/ pollImages_Drain
    \/ pollImages_UpdateItem
    \/ pollImages_Return

Spec == Init /\ [][Next]_vars

\* ------------------------------------------------ started with -runonce
\* lines 46-51 with the flag set: one pollFeeds, one pollImages, return
InitOnce == Init /\ runOnce

NextOnce ==
    \/ main_RunOnce
    \/ pollFeeds_Start
    \/ pollFeeds_Enqueue
    \/ pollFeeds_Close
    \/ \E w \in Workers : feedWorker_Take(w)
    \/ \E w \in Workers : feedWorker_Fetch(w)
    \/ pollFeeds_Drain
    \/ update_Followers
    \/ update_Unfollow
    \/ update_AddItem
    \/ update_Follow
    \/ pollFeeds_Gosched
    \/ pollFeeds_Return
    \/ pollImages_Start
    \/ pollImages_Enqueue
    \/ pollImages_Close
    \/ \E w \in Workers : imageWorker_Take(w)
    \/ \E w \in Workers : imageWorker_Pick(w)
    \/ \E w \in Workers : imageWorker_Encode(w)
    \/ pollImages_Drain
    \/ pollImages_UpdateItem
    \/ pollImages_Return

SpecOnce == InitOnce /\ [][NextOnce]_vars

\* ------------------------------------------------- a fetch that stalls
\* line 163: http.Get(p.FeedUrl) never returns; the worker stays in the
\* call for good. At most one call of a run stalls.
feedWorker_Stall(w) ==
    /\ fw[w].st = "fetch"
    /\ \A v \in Workers : fw[v].st # "stalled"
    /\ fw' = [fw EXCEPT ![w] = [st |-> "stalled", p |-> @.p]]
    /\ UNCHANGED <<mainVars, storeVars, files, fpc, profiles, feedJobs, feedResults, fi,
                   data, snap, k, ret, imgVars, calls>>

NextStall ==
    \/ NextOnce
    \/ \E w \in Workers : feedWorker_Stall(w)

\* the program started with -runonce, with fetches that may stall
SpecStall == InitOnce /\ [][NextStall]_vars

\* ------------------------------------- other users of the shared store
\* the store is shared with the site: while pollFeeds runs, a user may
\* start to follow a profile of the batch whose result has not been
\* received yet, or stop following the profile whose update is under way;
\* each happens at most once in a run. calls records both.
NewFollower == "u3"

ExternalFollow(f, p) ==
    /\ fpc \in {"enqueue", "drain"}
    /\ \E n \in DOMAIN profiles : profiles[n].Pid = p
    /\ \A n \in DOMAIN calls : ~(calls[n].op = "recv" /\ calls[n].a = p)
    /\ \A n \in DOMAIN calls : calls[n].op # "ExternalFollow"
    /\ \A n \in DOMAIN storeFollowers[p] : storeFollowers[p][n] # f
    /\ storeFollowers' = Follow(storeFollowers, f, p)
    /\ calls' = Append(calls, Call("ExternalFollow", f, p))
    /\ UNCHANGED <<mainVars, storeItems, files, feedVars, imgVars>>

ExternalUnfollow(f, p) ==
    /\ fpc \in {"unfollow", "additem", "follow"}
    /\ p = data.Profile.Pid
    /\ \A n \in DOMAIN calls : calls[n].op # "ExternalUnfollow"
    /\ \E n \in DOMAIN storeFollowers[p] : storeFollowers[p][n] = f
    /\ storeFollowers' = Unfollow(storeFollowers, f, p)
    /\ calls' = Append(calls, Call("ExternalUnfollow", f, p))
    /\ UNCHANGED <<mainVars, storeItems, files, feedVars, imgVars>>

\* one run of pollFeeds (line 46) with the other users at work
NextExt ==
    \/ pollFeeds_Start
    \/ pollFeeds_Enqueue
    \/ pollFeeds_Close
    \/ \E w \in Workers : feedWorker_Take(w)
    \/ \E w \in Workers : feedWorker_Fetch(w)
    \/ pollFeeds_Drain
    \/ update_Followers
    \/ update_Unfollow
    \/ update_AddItem
    \/ update_Follow
    \/ pollFeeds_Gosched
    \/ pollFeeds_Return
    \/ \E p \in Pids : ExternalFollow(NewFollower, p)
    \/ \E f \in {"u1", "u2", NewFollower}, p \in Pids : ExternalUnfollow(f, p)

\* pollFeeds next to other users of the store
SpecExt == Init /\ [][NextExt]_vars

\* ======================================================== the claims
Range(seq) == {seq[i] : i \in DOMAIN seq}

\* the positions of calls holding the store call op(a, b)
CallsOf(op, a, b) ==
    {i \in DOMAIN calls : calls[i].op = op /\ calls[i].a = a /\ calls[i].b = b}

\* the positions of calls holding a store call of updateProfileItemData for profile pid
UpdateCallsOf(pid) ==
    {i \in DOMAIN calls :
        \/ calls[i].op = "Followers" /\ calls[i].a = pid
        \/ calls[i].op \in {"Unfollow", "AddItem", "Follow"} /\ calls[i].b = pid}

\* calls holds the current run of pollFeeds / of pollImages
InPollFeeds == fpc # "idle"
InPollImages == ipc # "idle"

\* pollFeeds / pollImages is about to return
FeedsDone == fpc = "drain" /\ ~FeedDrainMore(fi, profiles)
ImagesDone == ipc = "return" \/ (ipc = "drain" /\ ~ImageDrainMore(ii, items))

\* the processing of the result received at position i of calls is over
UpdateOver(i) ==
    \/ \E j \in DOMAIN calls : j > i /\ calls[j].op = "recv"
    \/ fpc \in {"gosched", "drain"}

\* the result at position i of calls carries a non-nil list of at least one entry
HasEntries(i) == calls[i].op = "recv" /\ ~calls[i].isNil /\ Len(calls[i].list) >= 1

\* C1: in one run of pollFeeds, once the update for a result with at least
\* one entry is over, the follower snapshot was taken right after the result
\* was received and, when it succeeded, every follower in it has exactly one
\* Unfollow(f, P) and exactly one Follow(f, P) in the run, the Unfollow
\* first; nothing in this depends on the entries being new to the store.
C1_UnfollowThenFollowOnce ==
    InPollFeeds =>
        \A i \in DOMAIN calls :
            (HasEntries(i) /\ UpdateOver(i)) =>
                /\ i < Len(calls)
                /\ calls[i + 1].op = "Followers"
                /\ calls[i + 1].a = calls[i].a
                /\ calls[i + 1].err = NoErr =>
                      \A f \in Range(calls[i + 1].list) :
                          /\ Cardinality(CallsOf("Unfollow", f, calls[i].a)) = 1
                          /\ Cardinality(CallsOf("Follow", f, calls[i].a)) = 1
                          /\ \A u \in CallsOf("Unfollow", f, calls[i].a),
                                v \in CallsOf("Follow", f, calls[i].a) : u < v

\* C1 witness: in the second poll the update of p1 (two followers) is over,
\* and its entry a1 was in the store before (its image file is on disk)
C1_Witness ==
    /\ feedRuns = 2
    /\ fpc = "gosched"
    /\ data.Profile.Pid = "p1"
    /\ Len(data.Items.elems) >= 1
    /\ ret = NoErr
    /\ Len(snap) = 2
    /\ CallsOf("Follow", "u1", "p1") # {}
    /\ (ImgDir \o "/" \o Md5Hex("a1") \o ".png") \in files

\* the batch of the current run of pollFeeds
Batch == {profiles[i].Pid : i \in DOMAIN profiles}

RecvOf(pid) == {i \in DOMAIN calls : calls[i].op = "recv" /\ calls[i].a = pid}

\* the fetch of the result at position i succeeded: no transport error, no parse error
FetchOk(i) == calls[i].op = "recv" /\ calls[i].err = NoErr /\ ~calls[i].isNil

SomeTransportError ==
    \E i \in DOMAIN calls : calls[i].op = "recv" /\ calls[i].err = TransportError

\* the follower snapshot of the update that follows position i did not fail
SnapshotOk(i) ==
    ~(i < Len(calls) /\ calls[i + 1].op = "Followers" /\ calls[i + 1].err # NoErr)

\* every entry of the result at position i has been upserted for its profile
AllUpserted(i) ==
    \A id \in Range(calls[i].list) :
        /\ CallsOf("AddItem", id, calls[i].a) # {}
        /\ id \in DOMAIN storeItems

C3_TransportErrorNoMutation ==
    InPollFeeds =>
        /\ \A i \in DOMAIN calls :
              (calls[i].op = "recv" /\ calls[i].err = TransportError) =>
                  /\ calls[i].isNil
                  /\ calls[i].list = << >>
                  /\ i < Len(calls) => calls[i + 1].op = "recv"
                  /\ i = Len(calls) => fpc \in {"gosched", "drain"}
                  /\ UpdateCallsOf(calls[i].a) = {}
        /\ FeedsDone => \A p \in Batch : Cardinality(RecvOf(p)) = 1

\* C3 witness: p1 failed with a transport error, and the run went on to
\* receive and upsert p2
C3_Witness ==
    /\ InPollFeeds
    /\ \E i \in RecvOf("p1"), j \in RecvOf("p2") :
          /\ calls[i].err = TransportError
          /\ i < j
          /\ FetchOk(j)
    /\ CallsOf("AddItem", Md5Hex("a3"), "p2") # {}

\* the positions of calls holding an UpdateItem of the item id
UpdateItemOf(id) == {i \in DOMAIN calls : calls[i].op = "UpdateItem" /\ calls[i].a = id}

\* C4: in one run of pollImages no item is written twice, every UpdateItem
\* directly follows the receipt of that item's result (its job is complete,
\* whatever the error), and when pollImages returns every item of the batch
\* has exactly one UpdateItem and there is no other write.
C4_OneWritePerItem ==
    InPollImages =>
        /\ \A i \in DOMAIN items : Cardinality(UpdateItemOf(items[i].Id)) <= 1
        /\ \A j \in DOMAIN calls :
              calls[j].op = "UpdateItem" =>
                  /\ j > 1
                  /\ calls[j - 1].op = "recvImage"
                  /\ calls[j - 1].a = calls[j].a
                  /\ \E i \in DOMAIN items : items[i].Id = calls[j].a
                  /\ \A w \in Workers : iw[w].item.Id # calls[j].a
                  /\ \A i \in DOMAIN imgJobs : imgJobs[i].Id # calls[j].a
        /\ ImagesDone =>
              /\ \A i \in DOMAIN items : Cardinality(UpdateItemOf(items[i].Id)) = 1
              /\ Cardinality({j \in DOMAIN calls : calls[j].op = "UpdateItem"}) = Len(items)

\* C4 witness: pollImages is about to return from a batch of three items,
\* one fetched with success and one with an error, each written once
C4_Witness ==
    /\ ImagesDone
    /\ Len(items) = 3
    /\ \E i, j \in DOMAIN calls :
          /\ calls[i].op = "recvImage" /\ calls[i].err = NoErr /\ calls[i].b # ""
          /\ calls[j].op = "recvImage" /\ calls[j].err # NoErr
          /\ Cardinality(UpdateItemOf(calls[i].a)) = 1
          /\ Cardinality(UpdateItemOf(calls[j].a)) = 1

\* the source entry identifiers the feeds of the profiles hold
SourceIds ==
    UNION {{FeedTable[PidIndex(p)][i].Id : i \in DOMAIN FeedTable[PidIndex(p)]} : p \in Pids}

\* the Ids one ingestion of every feed gives
ExpectedIds == {Md5Hex(x) : x \in SourceIds}

\* pollFeeds is about to return from a run in which every profile was
\* fetched and parsed and every update went through
FullRunDone ==
    /\ FeedsDone
    /\ Batch = Pids
    /\ \A i \in DOMAIN calls :
          calls[i].op = "recv" =>
              /\ FetchOk(i)
              /\ Len(calls[i].list) = Len(FeedTable[PidIndex(calls[i].a)])
    /\ \A i \in DOMAIN calls : calls[i].op = "Followers" => calls[i].err = NoErr
    /\ \A p \in Pids : RecvOf(p) # {}

\* C5: the store never holds an Id other than the md5 of a source
\* identifier of the feeds, never two entries for one source entry (link),
\* and after every complete ingestion of the feeds, the first as well as any
\* later one, its set of Ids is exactly the set one ingestion gives.
C5_IngestionIdempotent ==
    /\ DOMAIN storeItems \subseteq ExpectedIds
    /\ \A x, y \in DOMAIN storeItems : storeItems[x].Link = storeItems[y].Link => x = y
    /\ FullRunDone =>
          /\ DOMAIN storeItems = ExpectedIds
          /\ Cardinality(DOMAIN storeItems) = Cardinality(SourceIds)

\* C5 witness: the second complete ingestion of the same feeds is over
C5_Witness ==
    /\ FullRunDone
    /\ feedRuns = 2
    /\ \E id \in DOMAIN storeItems : (ImgDir \o "/" \o id \o ".png") \in files
    /\ DOMAIN storeItems = ExpectedIds

\* C6: when the follower snapshot fails, updateProfileItemData returns that
\* error at once: the next thing the coordinator does is to receive another
\* result, and no Unfollow, AddItem or Follow is made for the profile in the
\* whole run.
C6_SnapshotFailureAborts ==
    InPollFeeds =>
        \A i \in DOMAIN calls :
            (calls[i].op = "Followers" /\ calls[i].err # NoErr) =>
                /\ i < Len(calls) => calls[i + 1].op = "recv"
                /\ i = Len(calls) => fpc \in {"gosched", "drain"}
                /\ (i = Len(calls) /\ fpc = "gosched") => ret = calls[i].err
                /\ \A j \in UpdateCallsOf(calls[i].a) : j = i

\* C6 witness: the snapshot of p1, which has followers and entries, failed
C6_Witness ==
    /\ fpc = "gosched"
    /\ ret = StoreError
    /\ data.Profile.Pid = "p1"
    /\ data.Profile.FollowerCount = 2
    /\ Len(data.Items.elems) = 2
    /\ storeFollowers["p1"] = <<"u1", "u2">>

\* C7 (the claim's second half): once the image fetch stage has set the
\* Image of a stored entry to its file name, no later step changes it.
C7_BackfilledImageKept ==
    [][\A id \in DOMAIN storeItems :
          storeItems[id].Image = id \o ".png" =>
              storeItems'[id].Image = storeItems[id].Image]_vars

\* C8: pollFeeds and pollImages never run at the same time; while pollFeeds
\* runs main is at its call and pollImages has run once less; while
\* pollImages runs main is at its call and the pollFeeds of the same round
\* has returned; and main waits for a tick, tests runOnce or exits only when
\* neither runs and each has run once per round.
C8_StrictlySequential ==
    /\ ~(fpc # "idle" /\ ipc # "idle")
    /\ fpc # "idle" => pc \in {"L46", "L55"} /\ feedRuns = imageRuns + 1
    /\ ipc # "idle" => pc \in {"L47", "L56"} /\ feedRuns = imageRuns
    /\ pc \in {"L49", "L54", "exit"} =>
          /\ fpc = "idle"
          /\ ipc = "idle"
          /\ feedRuns = ticks + 1
          /\ imageRuns = ticks + 1
    /\ pc \in {"L46", "L55"} => (fpc = "idle" => feedRuns = ticks)
    /\ feedRuns <= ticks + 1

\* C8 witness: in the round of the first tick pollImages is writing an item
\* back while pollFeeds is not running
C8_Witness ==
    /\ ticks = 1
    /\ pc = "L56"
    /\ ipc = "update"
    /\ fpc = "idle"
    /\ feedRuns = 2

\* the result at position j of calls is one of an item no image was found for
NoImageResult(j) ==
    /\ calls[j].op = "recvImage"
    /\ \/ calls[j].err = ImageError
       \/ calls[j].err = NoErr /\ calls[j].b = ""

\* C9: a worker has a file open only for a non-nil image; the result of an
\* item no image was found for carries an empty Image, the coordinator's
\* next store call writes that item back with its Image empty, leaving the
\* stored item as it was grabbed, and (in the first run, when the directory
\* was empty) no file of that item exists.
C9_NoImageNoFile ==
    /\ \A w \in Workers : iw[w].st = "encode" => iw[w].img
    /\ InPollImages =>
          \A j \in DOMAIN calls :
              NoImageResult(j) =>
                  /\ calls[j].b = ""
                  /\ j < Len(calls) => calls[j + 1] = Call("UpdateItem", calls[j].a, "")
                  /\ (j + 1 = Len(calls) /\ ipc = "drain") =>
                        \E i \in DOMAIN items :
                            /\ items[i].Id = calls[j].a
                            /\ storeItems[calls[j].a] = items[i]
                  /\ imageRuns = 1 => (ImgDir \o "/" \o calls[j].a \o ".png") \notin files

\* C9 witness: in the first run an item without an image (no error) has
\* just been written back, and the image directory is empty
C9_Witness ==
    /\ imageRuns = 1
    /\ ipc = "drain"
    /\ Len(calls) >= 2
    /\ calls[Len(calls)].op = "UpdateItem"
    /\ calls[Len(calls) - 1].op = "recvImage"
    /\ calls[Len(calls) - 1].err = NoErr
    /\ calls[Len(calls) - 1].b = ""
    /\ storeItems[calls[Len(calls)].a].Image = ""
    /\ files = {}

\* C10: with runOnce main never reaches the ticker loop, runs pollFeeds and
\* pollImages at most once and has run each exactly once when it exits,
\* after which nothing happens; without runOnce main never exits and, each
\* time it waits for a tick, has run each once at the start plus once per
\* tick received.
C10_RunOnceOrForever ==
    /\ runOnce =>
          /\ pc \in {"L46", "L47", "L49", "exit"}
          /\ ticks = 0
          /\ feedRuns <= 1
          /\ imageRuns <= 1
    /\ pc \in {"L49", "exit"} => feedRuns = 1 /\ imageRuns = 1
    /\ pc = "exit" => runOnce /\ fpc = "idle" /\ ipc = "idle" /\ ~ENABLED Next
    /\ ~runOnce =>
          /\ pc # "exit"
          /\ pc = "L54" => feedRuns = ticks + 1 /\ imageRuns = ticks + 1
    /\ imageRuns <= feedRuns
    /\ feedRuns <= imageRuns + 1

\* C10 witness: with runOnce main has exited after one poll and one backfill
\* that stored and wrote something
C10_Witness ==
    /\ runOnce
    /\ pc = "exit"
    /\ feedRuns = 1
    /\ imageRuns = 1
    /\ DOMAIN storeItems # {}
    /\ files # {}

\* ------------------------------------------------------------------ C11
\* the last index of calls before the next result received after index i
UpdateEnd(i) ==
    LET later == {j \in DOMAIN calls : j > i /\ calls[j].op = "recv"}
    IN  IF later = {}
        THEN Len(calls)
        ELSE (CHOOSE j \in later : \A m \in later : j <= m) - 1

\* the calls of the update that follows the result received at index i,
\* as indices of calls
UpdateIdx(i) ==
    {j \in (i + 1) .. UpdateEnd(i) :
        calls[j].op \in {"Followers", "Unfollow", "AddItem", "Follow"}}

\* the phase of updateProfileItemData a store call belongs to
Phase(op) ==
    CASE op = "Followers" -> 1
      [] op = "Unfollow" -> 2
      [] op = "AddItem" -> 3
      [] op = "Follow" -> 4
      [] OTHER -> 0

\* C11: within one update of a Profile P the follower snapshot is the first
\* store call, every Unfollow(f, P) comes before the first upsert and every
\* upsert before the first Follow(f, P): from one call of the trace to the
\* next the phase never goes back until the next result is received, and
\* the snapshot comes right after the result and nowhere else. While an
\* entry of P is being upserted every snapshot follower has been unfollowed
\* and none of them has an edge to P, and the first Follow comes after the
\* last upsert.
C11_PhasesInOrder ==
    /\ InPollFeeds =>
          \A j \in DOMAIN calls :
             /\ j = 1 => calls[j].op = "recv"
             /\ j > 1 =>
                   \/ calls[j].op = "recv"
                   \/ /\ Phase(calls[j].op) >= 1
                      /\ Phase(calls[j].op) >= Phase(calls[j - 1].op)
                      /\ calls[j].op = "Followers" <=> calls[j - 1].op = "recv"
                      /\ calls[j].op = "Followers" => calls[j].a = calls[j - 1].a
                      /\ calls[j].op # "Followers" =>
                            /\ calls[j - 1].op = "Followers" => calls[j].b = calls[j - 1].a
                            /\ calls[j - 1].op # "Followers" => calls[j].b = calls[j - 1].b
    /\ fpc = "additem" =>
          \A n \in DOMAIN snap :
             /\ CallsOf("Unfollow", snap[n], data.Profile.Pid) # {}
             /\ CallsOf("Follow", snap[n], data.Profile.Pid) = {}
             /\ snap[n] \notin Range(storeFollowers[data.Profile.Pid])
    /\ fpc = "follow" =>
          \A n \in DOMAIN data.Items.elems :
             CallsOf("AddItem", data.Items.elems[n].Id, data.Profile.Pid) # {}

\* the second entry of p1 is being upserted after both its followers were unfollowed
C11_Witness ==
    /\ fpc = "additem"
    /\ k = 1
    /\ data.Profile.Pid = "p1"
    /\ Len(snap) = 2
    /\ storeFollowers["p1"] = << >>

FeedJobPlaces ==
    (IF fpc = "enqueue"
     THEN [n \in 1 .. (Len(profiles) - fi) |-> profiles[fi + n].Pid]
     ELSE << >>)
    \o [n \in DOMAIN feedJobs |-> feedJobs[n].Pid]
    \o SelectSeq([n \in 1 .. NumWorkers |->
                    IF fw[n - 1].st = "idle" THEN NoProfile.Pid ELSE fw[n - 1].p.Pid],
                 LAMBDA pid : pid # NoProfile.Pid)
    \o [n \in DOMAIN feedResults |-> feedResults[n].Profile.Pid]
    \o [n \in DOMAIN SelectSeq(calls, LAMBDA c : c.op = "recv") |->
          SelectSeq(calls, LAMBDA c : c.op = "recv")[n].a]

\* the same for the jobs of the current run of pollImages, by item Id
ImageJobPlaces ==
    (IF ipc = "enqueue"
     THEN [n \in 1 .. (Len(items) - ii) |-> items[ii + n].Id]
     ELSE << >>)
    \o [n \in DOMAIN imgJobs |-> imgJobs[n].Id]
    \o SelectSeq([n \in 1 .. NumWorkers |->
                    IF iw[n - 1].st = "idle" THEN NoItem.Id ELSE iw[n - 1].item.Id],
                 LAMBDA id : id # NoItem.Id)
    \o [n \in DOMAIN imgResults |-> imgResults[n].Item.Id]
    \o [n \in DOMAIN SelectSeq(calls, LAMBDA c : c.op = "recvImage") |->
          SelectSeq(calls, LAMBDA c : c.op = "recvImage")[n].a]

\* seq holds every element of the sequence all exactly once
Permutation(seq, all) ==
    /\ Len(seq) = Len(all)
    /\ \A n \in DOMAIN all : \E m \in DOMAIN seq : seq[m] = all[n]
    /\ \A m, n \in DOMAIN all : m # n => all[m] # all[n]

\* the steps of a run of pollFeeds / of pollImages after its start
FeedRunStep ==
    \/ pollFeeds_Gosched \/ pollFeeds_Close \/ pollFeeds_Return \/ pollFeeds_Enqueue
    \/ pollFeeds_Drain \/ update_Followers \/ update_Unfollow \/ update_AddItem
    \/ update_Follow
    \/ \E w \in Workers : feedWorker_Take(w) \/ feedWorker_Fetch(w)

ImageRunStep ==
    \/ pollImages_Close \/ pollImages_Return \/ pollImages_Enqueue
    \/ pollImages_Drain \/ pollImages_UpdateItem
    \/ \E w \in Workers : imageWorker_Take(w) \/ imageWorker_Pick(w) \/ imageWorker_Encode(w)

\* C13: in a run over N jobs every job is in exactly one place at any time
\* (waiting, with one worker, as one result, or drained), the coordinator
\* has drained exactly N results when the run can return and not before,
\* and, every fetch returning, a run that has not returned can always take
\* a step (each step moves a job forward, so the run ends), for N = 0 too.
C13_OneResultPerJob ==
    /\ InPollFeeds =>
          /\ Permutation(FeedJobPlaces, [n \in DOMAIN profiles |-> profiles[n].Pid])
          /\ ENABLED FeedRunStep
          /\ ENABLED pollFeeds_Return <=>
                /\ Len(SelectSeq(calls, LAMBDA c : c.op = "recv")) = Len(profiles)
                /\ fpc = "drain"
    /\ InPollImages =>
          /\ Permutation(ImageJobPlaces, [n \in DOMAIN items |-> items[n].Id])
          /\ ENABLED ImageRunStep
          /\ ENABLED pollImages_Return <=>
                /\ Len(SelectSeq(calls, LAMBDA c : c.op = "recvImage")) = Len(items)
                /\ ipc \in {"drain", "return"}

\* a run of pollFeeds over two jobs has drained its second result and can return
C13_Witness ==
    /\ FeedsDone
    /\ Len(profiles) >= 2
    /\ Cardinality({n \in DOMAIN calls : calls[n].op = "recv"}) = Len(profiles)
    /\ \A w \in Workers : fw[w].st = "idle"

\* ------------------------------------------------------------------ C14
\* C14: the results waiting to be drained and the jobs waiting to be taken
\* never exceed the capacity of their channel, which is the number of jobs
\* of the run; so whenever the coordinator is about to enqueue a job there
\* is room in the jobs channel, and whenever a worker is about to send a
\* result there is room in the results channel.
C14_NoBlockedSend ==
    /\ InPollFeeds =>
          /\ Len(feedJobs) <= ChanCap(Len(profiles))
          /\ Len(feedResults) <= ChanCap(Len(profiles))
          /\ ChanCap(Len(profiles)) = Len(profiles)
          /\ (fpc = "enqueue" /\ fi < Len(profiles)) => ENABLED pollFeeds_Enqueue
          /\ \A w \in Workers : fw[w].st = "fetch" => ENABLED feedWorker_Fetch(w)
    /\ InPollImages =>
          /\ Len(imgJobs) <= ChanCap(Len(items))
          /\ Len(imgResults) <= ChanCap(Len(items))
          /\ ChanCap(Len(items)) = Len(items)
          /\ (ipc = "enqueue" /\ ii < Len(items)) => ENABLED pollImages_Enqueue
          /\ \A w \in Workers :
                /\ iw[w].st = "pick" => ENABLED imageWorker_Pick(w)
                /\ iw[w].st = "encode" => ENABLED imageWorker_Encode(w)

\* both results of a run over two jobs wait in the results channel while
\* the coordinator has not drained any
C14_Witness ==
    /\ InPollFeeds
    /\ Len(profiles) >= 2
    /\ Len(feedResults) = Len(profiles)
    /\ \A n \in DOMAIN calls : calls[n].op # "recv"

\* ------------------------------------------------------------------ C15
\* the update that follows the result received at index i has made all
\* its store calls
UpdateComplete(i) ==
    LET U == UpdateIdx(i)
        n(op) == Cardinality({j \in U : calls[j].op = op})
    IN  IF calls[i].isNil
        THEN U = {}
        ELSE /\ i + 1 \in U
             /\ calls[i + 1].op = "Followers"
             /\ IF calls[i + 1].err # NoErr
                THEN U = {i + 1}
                ELSE /\ n("Unfollow") = Len(calls[i + 1].list)
                     /\ n("AddItem") = Len(calls[i].list)
                     /\ n("Follow") = Len(calls[i + 1].list)

\* the step receives a result: it appends a "recv" or "recvImage" entry to calls
DrainStep ==
    /\ Len(calls') = Len(calls) + 1
    /\ calls'[Len(calls')].op \in {"recv", "recvImage"}

\* C15: every step that changes the store is a step of the one coordinator
\* that is running (pollFeeds inside updateProfileItemData while pollImages
\* is idle, or pollImages at UpdateItem while pollFeeds is idle) and moves
\* no worker and no channel; a step of a worker changes neither the store
\* nor the trace of store calls; and when the coordinator receives a
\* result, every store call for the result before it has been made.
C15_StoreOnlyByCoordinator ==
    [][ /\ storeVars' # storeVars =>
              /\ UNCHANGED <<fw, iw, feedJobs, feedResults, imgJobs, imgResults>>
              /\ \/ fpc \in {"unfollow", "additem", "follow"} /\ ipc = "idle"
                 \/ ipc = "update" /\ fpc = "idle"
              /\ Len(calls') = Len(calls) + 1
              /\ calls'[Len(calls')].op \in {"Unfollow", "AddItem", "Follow", "UpdateItem"}
        /\ (fw' # fw \/ iw' # iw) => UNCHANGED <<storeVars, calls>>
        /\ (DrainStep /\ calls # << >>) =>
              \/ /\ fpc = "drain"
                 /\ \E i \in DOMAIN calls :
                       /\ calls[i].op = "recv"
                       /\ \A j \in DOMAIN calls : j > i => calls[j].op # "recv"
                       /\ UpdateComplete(i)
              \/ /\ ipc = "drain"
                 /\ calls[Len(calls)].op = "UpdateItem"
                 /\ calls[Len(calls) - 1].op = "recvImage"
                 /\ calls[Len(calls)].a = calls[Len(calls) - 1].a
      ]_vars

\* the coordinator has upserted an entry while a worker is still fetching
C15_Witness ==
    /\ fpc = "additem"
    /\ k >= 1
    /\ \E w \in Workers : fw[w].st = "fetch"
    /\ \E n \in DOMAIN calls : calls[n].op = "AddItem"

\* ------------------------------------------------------------------ C16
\* the job of profile pid is the one whose fetch has stalled
StalledJob(pid) == \E w \in Workers : fw[w].st = "stalled" /\ fw[w].p.Pid = pid

\* C16: in a run of pollFeeds in which one fetch has stalled, a result that
\* is in the results channel can be received whenever the coordinator is at
\* the receive, whichever job it belongs to, and the run comes to rest only
\* when every job other than the stalled one has had its result received
\* and all the store calls of its update made.
C16_StallIsLocal ==
    (InPollFeeds /\ \E pid \in Batch : StalledJob(pid)) =>
       /\ (fpc = "drain" /\ feedResults # << >>) => ENABLED pollFeeds_Drain
       /\ ~ENABLED FeedRunStep =>
             \A pid \in Batch :
                \/ StalledJob(pid)
                \/ \E i \in RecvOf(pid) : UpdateComplete(i)

\* the fetch of p1, submitted first, has stalled; the result of p2 has been
\* received and applied and the coordinator waits for a result that never comes
C16_Witness ==
    /\ StalledJob("p1")
    /\ fpc = "drain"
    /\ fi = 1
    /\ \E i \in RecvOf("p2") : HasEntries(i) /\ UpdateComplete(i) /\ AllUpserted(i)
    /\ ~ENABLED FeedRunStep

\* ------------------------------------------------------------------ C17
\* C17: every result the coordinator of pollImages receives for an entry
\* that got no image (its Image is still empty) carries an error and is
\* logged as an error, never as a found image.
C17_NoImageIsFailure ==
    InPollImages =>
       \A j \in DOMAIN calls :
          (calls[j].op = "recvImage" /\ calls[j].b = "") =>
             /\ calls[j].err # NoErr
             /\ calls[j].log = "Error processing images"

\* ------------------------------------------------------------------ C18
\* the successful follower snapshot of profile pid in the current run, as
\* indices of calls
SnapshotOf(pid) ==
    {n \in DOMAIN calls :
        calls[n].op = "Followers" /\ calls[n].a = pid /\ calls[n].err = NoErr}

\* C18: when the update of a Profile P has returned, a follower f of the
\* snapshot whose edge to P another user removed after the snapshot was
\* taken and before the update called Follow(f, P) is not following P.
C18_RemovedEdgeStaysRemoved ==
    fpc = "gosched" =>
       \A f \in Range(snap) :
          (\E n \in SnapshotOf(data.Profile.Pid),
              e \in CallsOf("ExternalUnfollow", f, data.Profile.Pid) :
              /\ n < e
              /\ \A m \in CallsOf("Follow", f, data.Profile.Pid) : e < m)
          => f \notin Range(storeFollowers[data.Profile.Pid])

\* ------------------------------------------------------------------ C19
\* C19: in a run of pollImages the items of the batch have distinct Ids and
\* distinct file paths, and two workers that hold a job at the same time
\* hold different items and write to different paths.
C19_DistinctPaths ==
    InPollImages =>
       /\ \A m, n \in DOMAIN items : m # n =>
             /\ items[m].Id # items[n].Id
             /\ ImagePath(items[m]) # ImagePath(items[n])
       /\ \A v, w \in Workers : (v # w /\ iw[v].st # "idle" /\ iw[w].st # "idle") =>
             /\ iw[v].item.Id # iw[w].item.Id
             /\ ImagePath(iw[v].item) # ImagePath(iw[w].item)

\* two workers have their files open at the same time
C19_Witness ==
    /\ InPollImages
    /\ \E v, w \in Workers :
          /\ v # w
          /\ iw[v].st = "encode"
          /\ iw[w].st = "encode"
          /\ {ImagePath(iw[v].item), ImagePath(iw[w].item)} \subseteq files

\* ------------------------------------------------------------------ C20
\* no other user has changed an edge to profile pid since its snapshot at index n
NoExternalSince(pid, n) ==
    \A e \in DOMAIN calls :
       (e > n /\ calls[e].op \in {"ExternalFollow", "ExternalUnfollow"}) => calls[e].b # pid

\* C20: when the update of a Profile P has returned without a failure and
\* no other user changed an edge to P since its snapshot, P has the
\* followers it had when the snapshot was taken, each once: the snapshot
\* followers are following again and the followers the store held beyond
\* the snapshot still come after them in their order; these are following
\* P all through the update.
C20_FollowerSetPreserved ==
    \A n \in SnapshotOf(data.Profile.Pid) : NoExternalSince(data.Profile.Pid, n) =>
       /\ fpc \in {"unfollow", "additem", "follow"} =>
             Range(calls[n].rest) \subseteq Range(storeFollowers[data.Profile.Pid])
       /\ fpc = "gosched" =>
             LET now == storeFollowers[data.Profile.Pid]
             IN  /\ Range(now) = Range(calls[n].list) \cup Range(calls[n].rest)
                 /\ Len(now) = Len(calls[n].list) + Len(calls[n].rest)
                 /\ SubSeq(now, Len(calls[n].list) + 1, Len(now)) = calls[n].rest

\* the update of p1 has returned; its snapshot held two of the three
\* followers p1 had, and all three are following p1
C20_Witness ==
    /\ fpc = "gosched"
    /\ data.Profile.Pid = "p1"
    /\ \E n \in SnapshotOf("p1") :
          /\ NoExternalSince("p1", n)
          /\ Len(calls[n].list) = 2
          /\ calls[n].rest # << >>
    /\ Len(storeFollowers["p1"]) = 3

====
